---- MODULE Spec2Model ----
(***************************************************************************)
(* Top16 (src/src/top16.rs): the 16 largest values of a stream, kept as an *)
(* unordered array of 16 u32 slots plus the slot indices packed, in        *)
(* ascending order of value, into one u64 of sixteen 4-bit fields.         *)
(*                                                                         *)
(* The u64 is modelled as its sixteen 4-bit fields, field 0 being the      *)
(* least significant; every shift amount the code computes is a multiple   *)
(* of IX_BITS, so a shift moves whole fields.  The u32 value domain is     *)
(* scaled down to 0..U32Max; the values offered are 0..MaxVal, or the      *)
(* values of a test of src/tests/top16.rs.                                 *)
(***************************************************************************)
EXTENDS Integers, Sequences, FiniteSets, Bags

\* ---------------------------------------------------------------- bounds
MaxVal == 2        \* values offered to the tracker are 0..MaxVal
MaxCalls == 4      \* calls per behaviour of Spec
StreamLen == 17    \* calls per behaviour of SpecStream
MaxSwitches == 2   \* SpecStream: how often the stream changes its value
MaxTake == 17      \* take(n) is asked for n in 0..MaxTake
MaxCuts == 2       \* SpecCut: set_cutoff calls per behaviour
CutSwitches == 1   \* SpecCut: how often the stream changes its value
U32Max == 31       \* stands for u32::MAX: no value offered is above it

\* ------------------------------------------------------ program constants
NUM == 16
IX_BITS == 4
IX_MASK == 15
IXS_BITS == NUM * IX_BITS

Val == 0..MaxVal
Slots == 0..(NUM - 1)
Fields == 0..(NUM - 1)

VARIABLES
    elements,     \* Top16.elements: slot -> value
    sorted_ixs,   \* Top16.sorted_ixs: field -> slot index (field 0 = smallest)
    threshold,    \* Top16.threshold
    cutoff,       \* Top16.cutoff
    panicked,     \* the last call aborted with an arithmetic-overflow panic
    op,           \* the last call: "new", "rank", "see", "set_cutoff"
    arg,          \* the argument of the last call
    ret,          \* what the last call returned (0 when it returns nothing)
    seen,         \* the bag of the values passed to see/rank since new
    ncalls,       \* the number of see/rank calls since new
    stamp,        \* slot -> the ncalls of the call that stored its value, 0
                  \* for a slot that holds no admitted value
    switches,     \* SpecStream: how often the stream changed its value
    ncut,         \* the number of set_cutoff calls since new
    before_cut,   \* the tracker before the last call if that was set_cutoff,
                  \* <<>> otherwise
    walk          \* the live Iter and what it has returned so far, <<>> when
                  \* no iterator borrows the tracker

vars == <<elements, sorted_ixs, threshold, cutoff, panicked, op, arg, ret,
          seen, ncalls, stamp, switches, ncut, before_cut, walk>>

\* --------------------------------------------------- 64-bit word helpers
\* w << s for 0 <= s < 64 (the shift amount wraps at the word width)
Shl(w, s) ==
    LET n == (s % IXS_BITS) \div IX_BITS
    IN  [i \in Fields |-> IF i >= n THEN w[i - n] ELSE 0]

\* w.unbounded_shr(s): zero once s reaches the word width
UnboundedShr(w, s) ==
    LET n == s \div IX_BITS
    IN  [i \in Fields |-> IF i + n < NUM THEN w[i + n] ELSE 0]

\* bitwise or of two 4-bit fields
RECURSIVE BitOr(_, _)
BitOr(a, b) ==
    IF a = 0 THEN b
    ELSE IF b = 0 THEN a
    ELSE (IF a % 2 = 1 \/ b % 2 = 1 THEN 1 ELSE 0)
         + 2 * BitOr(a \div 2, b \div 2)

\* w1 | w2
WordOr(w1, w2) == [i \in Fields |-> BitOr(w1[i], w2[i])]

\* ix as u64
AsWord(ix) == [i \in Fields |-> IF i = 0 THEN ix ELSE 0]

\* 0xFEDCBA9876543210
IdentityIxs == [i \in Fields |-> i]

\* The tracker as one value
Self == [elements |-> elements, sorted_ixs |-> sorted_ixs,
         threshold |-> threshold, cutoff |-> cutoff]

\* new that clears the slots instead of filling them with the cutoff
new_zeroed(c) == [elements |-> [s \in Slots |-> 0], sorted_ixs |-> IdentityIxs,
                  threshold |-> c, cutoff |-> c]

\* Top16::new
new(c) == [elements |-> [s \in Slots |-> c], sorted_ixs |-> IdentityIxs,
           threshold |-> c, cutoff |-> c]

\* Top16::ix: (sorted_ixs >> shift) & IX_MASK
ix(t, shift) == UnboundedShr(t.sorted_ixs, shift)[0] % (IX_MASK + 1)

\* Top16::element_at
element_at(t, shift) == t.elements[ix(t, shift)]

\* le with the comparison made strict
le_strict(t, value, shift) == IF value < element_at(t, shift) THEN 1 ELSE 0

\* the closure le in see_helper
le(t, value, shift) == IF value <= element_at(t, shift) THEN 1 ELSE 0

\* the search with its last step left out
search_three_steps(t, value) ==
    LET s1 == 32 + 4 * IX_BITS - le(t, value, 32) * 32
        s2 == s1 + 2 * IX_BITS - le(t, value, s1) * 16
        s3 == s2 + 1 * IX_BITS - le(t, value, s2) * 8
    IN  s3

\* the search that takes the upper half without comparing
search_upper_half(t, value) ==
    LET s1 == 32 + 4 * IX_BITS
        s2 == s1 + 2 * IX_BITS - le(t, value, s1) * 16
        s3 == s2 + 1 * IX_BITS - le(t, value, s2) * 8
        s4 == s3 + 0 * IX_BITS - le(t, value, s3) * 4
    IN  s4

\* the values `shift` takes in see_helper: 32u32, then after each of the
\* four steps
shifts(t, value) ==
    LET s1 == 32 + 4 * IX_BITS - le(t, value, 32) * 32
        s2 == s1 + 2 * IX_BITS - le(t, value, s1) * 16
        s3 == s2 + 1 * IX_BITS - le(t, value, s2) * 8
        s4 == s3 + 0 * IX_BITS - le(t, value, s3) * 4
    IN  <<32, s1, s2, s3, s4>>

\* the four unrolled steps of the binary search in see_helper
search(t, value) ==
    LET s1 == 32 + 4 * IX_BITS - le(t, value, 32) * 32
        s2 == s1 + 2 * IX_BITS - le(t, value, s1) * 16
        s3 == s2 + 1 * IX_BITS - le(t, value, s2) * 8
        s4 == s3 + 0 * IX_BITS - le(t, value, s3) * 4
    IN  s4

\* the splice that keeps the smallest element's index in lower
splice_keeps_min(w, shift) ==
    LET lower == UnboundedShr(Shl(w, IXS_BITS - IX_BITS - shift),
                              IXS_BITS - IX_BITS - shift)
        upper == UnboundedShr(w, shift + IX_BITS)
        old_min_ix == w[0] % (IX_MASK + 1)
    IN  WordOr(Shl(WordOr(Shl(upper, IX_BITS), AsWord(old_min_ix)), shift),
               lower)

\* the splice with >> in place of unbounded_shr: a shift amount of 64 wraps
\* to 0
splice_wrapping_shr(w, shift) ==
    LET lower == UnboundedShr(Shl(w, IXS_BITS - IX_BITS - shift),
                              (IXS_BITS - shift) % IXS_BITS)
        upper == UnboundedShr(w, (shift + IX_BITS) % IXS_BITS)
        old_min_ix == w[0] % (IX_MASK + 1)
    IN  WordOr(Shl(WordOr(Shl(upper, IX_BITS), AsWord(old_min_ix)), shift),
               lower)

\* the splice of the reused slot index into the packed word
splice(w, shift) ==
    LET lower == UnboundedShr(Shl(w, IXS_BITS - IX_BITS - shift),
                              IXS_BITS - shift)
        upper == UnboundedShr(w, shift + IX_BITS)
        old_min_ix == w[0] % (IX_MASK + 1)
    IN  WordOr(Shl(WordOr(Shl(upper, IX_BITS), AsWord(old_min_ix)), shift),
               lower)

\* see_helper that leaves the threshold as it was
see_helper_stale_threshold(t, value) ==
    LET shift == search(t, value)
        old_min_ix == ix(t, 0)
        ixs == splice(t.sorted_ixs, shift)
        els == [t.elements EXCEPT ![old_min_ix] = value]
    IN  [top |-> [t EXCEPT !.sorted_ixs = ixs, !.elements = els],
         shift |-> shift]

\* see_helper that stores the value and leaves sorted_ixs as it was
see_helper_keeps_order(t, value) ==
    LET shift == search(t, value)
        old_min_ix == ix(t, 0)
        els == [t.elements EXCEPT ![old_min_ix] = value]
        t1 == [t EXCEPT !.elements = els]
    IN  [top |-> [t1 EXCEPT !.threshold = element_at(t1, 0)],
         shift |-> shift]

\* Top16::see_helper: the new tracker and the shift it returns
see_helper(t, value) ==
    LET shift == search(t, value)
        old_min_ix == ix(t, 0)
        ixs == splice(t.sorted_ixs, shift)
        els == [t.elements EXCEPT ![old_min_ix] = value]
        t1 == [t EXCEPT !.sorted_ixs = ixs, !.elements = els]
    IN  [top |-> [t1 EXCEPT !.threshold = element_at(t1, 0)],
         shift |-> shift]

\* rank that rejects only values below the threshold
rank_admits_equal(t, value) ==
    IF value < t.threshold
    THEN [top |-> t, ret |-> 0]
    ELSE LET r == see_helper(t, value)
         IN  [top |-> r.top, ret |-> (r.shift \div 4) + 1]

\* rank that rejects nothing
rank_admits_all(t, value) ==
    LET r == see_helper(t, value)
    IN  [top |-> r.top, ret |-> (r.shift \div 4) + 1]

\* rank that rejects by the cutoff in place of the threshold
rank_by_cutoff(t, value) ==
    IF value <= t.cutoff
    THEN [top |-> t, ret |-> 0]
    ELSE LET r == see_helper(t, value)
         IN  [top |-> r.top, ret |-> (r.shift \div 4) + 1]

\* Top16::rank (Top16::see of src/src/lib.rs): the new tracker and the rank
rank(t, value) ==
    IF value <= t.threshold
    THEN [top |-> t, ret |-> 0]
    ELSE LET r == see_helper(t, value)
         IN  [top |-> r.top, ret |-> (r.shift \div 4) + 1]

\* see that rejects by the cutoff in place of the threshold
see_by_cutoff(t, value) ==
    IF value > t.cutoff THEN see_helper(t, value).top ELSE t

\* Top16::see_helper of src/src/lib.rs: the same search and splice; it
\* returns the rank, (shift >> 2) + 1
lib_see_helper(t, value) ==
    LET shift == search(t, value)
        old_min_ix == ix(t, 0)
        ixs == splice(t.sorted_ixs, shift)
        els == [t.elements EXCEPT ![old_min_ix] = value]
        t1 == [t EXCEPT !.sorted_ixs = ixs, !.elements = els]
    IN  [top |-> [t1 EXCEPT !.threshold = element_at(t1, 0)],
         ret |-> (shift \div 4) + 1]

\* Top16::see of src/src/lib.rs: the new tracker and the rank it returns
lib_see(t, value) ==
    IF value <= t.threshold
    THEN [top |-> t, ret |-> 0]
    ELSE lib_see_helper(t, value)

\* Top16::see of src/src/top16.rs: the new tracker
see(t, value) ==
    IF value > t.threshold THEN see_helper(t, value).top ELSE t

\* new_cutoff - 1 stopping at 0
SaturatingDec(x) == IF x = 0 THEN 0 ELSE x - 1

\* new_cutoff - 1 in u32, as a release build computes it
WrappingDec(x) == (x + U32Max) % (U32Max + 1)

\* a loop of set_cutoff that stops after the first slot
set_cutoff_loop_once(t, floor, new_cutoff, shift) ==
    IF t.elements[ix(t, shift)] > floor THEN t
    ELSE [t EXCEPT !.elements[ix(t, shift)] = new_cutoff]

\* the loop of set_cutoff, from the given shift on
RECURSIVE set_cutoff_loop(_, _, _, _)
set_cutoff_loop(t, floor, new_cutoff, shift) ==
    IF shift >= IXS_BITS THEN t
    ELSE IF t.elements[ix(t, shift)] > floor THEN t
    ELSE set_cutoff_loop([t EXCEPT !.elements[ix(t, shift)] = new_cutoff],
                         floor, new_cutoff, shift + IX_BITS)

\* new_cutoff - 1 alone, the old cutoff left out
floor_of_ignores_old(t, new_cutoff) == WrappingDec(new_cutoff)

\* the floor taken one above the old cutoff
floor_of_past_old(t, new_cutoff) ==
    IF t.cutoff + 1 >= WrappingDec(new_cutoff)
    THEN t.cutoff + 1 ELSE WrappingDec(new_cutoff)

\* self.cutoff.max(new_cutoff - 1)
floor_of(t, new_cutoff) ==
    IF t.cutoff >= WrappingDec(new_cutoff)
    THEN t.cutoff ELSE WrappingDec(new_cutoff)

\* set_cutoff whose loop starts at sort position 1
set_cutoff_from_one(t, new_cutoff) ==
    LET t1 == set_cutoff_loop(t, floor_of(t, new_cutoff), new_cutoff,
                              IX_BITS)
    IN  [t1 EXCEPT !.threshold = element_at(t1, 0), !.cutoff = new_cutoff]

\* set_cutoff that leaves the threshold as it was
set_cutoff_stale_threshold(t, new_cutoff) ==
    LET t1 == set_cutoff_loop(t, floor_of(t, new_cutoff), new_cutoff, 0)
    IN  [t1 EXCEPT !.cutoff = new_cutoff]

\* set_cutoff that leaves the cutoff field as it was
set_cutoff_keeps_cutoff(t, new_cutoff) ==
    LET t1 == set_cutoff_loop(t, floor_of(t, new_cutoff), new_cutoff, 0)
    IN  [t1 EXCEPT !.threshold = element_at(t1, 0)]

\* Top16::set_cutoff, once the subtraction has not panicked
set_cutoff(t, new_cutoff) ==
    LET t1 == set_cutoff_loop(t, floor_of(t, new_cutoff), new_cutoff, 0)
    IN  [t1 EXCEPT !.threshold = element_at(t1, 0), !.cutoff = new_cutoff]

\* the threshold in place of the cutoff
cutoff_of_threshold(t) == t.threshold

\* Top16::cutoff
cutoff_of(t) == t.cutoff

\* max that reads the sort position below the top one
max_below_top(t) ==
    LET v == element_at(t, IXS_BITS - IX_BITS - IX_BITS)
    IN  IF v > t.cutoff THEN <<v>> ELSE <<>>

\* max that compares the top value with the threshold
max_by_threshold(t) ==
    LET v == element_at(t, IXS_BITS - IX_BITS)
    IN  IF v > t.threshold THEN <<v>> ELSE <<>>

\* Top16::max: <<>> is None, <<v>> is Some(v)
max(t) ==
    LET v == element_at(t, IXS_BITS - IX_BITS)
    IN  IF v > t.cutoff THEN <<v>> ELSE <<>>


\* ------------------------------------------------------------- iterators
\* an Iter that starts where it is told, skipping nothing
make_iter_no_skip(t, fwd_shift) ==
    [fwd_shift |-> fwd_shift, bwd_shift |-> IXS_BITS]

\* Top16::make_iter: an Iter is its two cursors
RECURSIVE make_iter(_, _)
make_iter(t, fwd_shift) ==
    IF fwd_shift < IXS_BITS /\ element_at(t, fwd_shift) <= t.cutoff
    THEN make_iter(t, fwd_shift + IX_BITS)
    ELSE [fwd_shift |-> fwd_shift, bwd_shift |-> IXS_BITS]

\* the smaller of two numbers (u32::min)
Min(a, b) == IF a <= b THEN a ELSE b

\* Top16::iter
iter(t) == make_iter(t, 0)

\* take that does not skip the slots at the cutoff
take_no_skip(t, n) ==
    [fwd_shift |-> (16 - Min(16, n)) * IX_BITS, bwd_shift |-> IXS_BITS]

\* Top16::take
take(t, n) == make_iter(t, (16 - Min(16, n)) * IX_BITS)

\* next that returns the item and leaves its cursor where it was
next_stale_cursor(t, it) ==
    IF it.fwd_shift = it.bwd_shift
    THEN [it |-> it, item |-> <<>>]
    ELSE [it |-> it, item |-> <<element_at(t, it.bwd_shift - IX_BITS)>>]

\* Iter::next: the advanced iterator and the item, <<>> for None
next(t, it) ==
    IF it.fwd_shift = it.bwd_shift
    THEN [it |-> it, item |-> <<>>]
    ELSE [it |-> [it EXCEPT !.bwd_shift = @ - IX_BITS],
          item |-> <<element_at(t, it.bwd_shift - IX_BITS)>>]

\* next_back that advances its cursor before it reads
next_back_reads_late(t, it) ==
    IF it.fwd_shift = it.bwd_shift
    THEN [it |-> it, item |-> <<>>]
    ELSE [it |-> [it EXCEPT !.fwd_shift = @ + IX_BITS],
          item |-> <<t.elements[ix(t, it.fwd_shift + IX_BITS)]>>]

\* Iter::next_back
next_back(t, it) ==
    IF it.fwd_shift = it.bwd_shift
    THEN [it |-> it, item |-> <<>>]
    ELSE [it |-> [it EXCEPT !.fwd_shift = @ + IX_BITS],
          item |-> <<t.elements[ix(t, it.fwd_shift)]>>]

\* it.collect(): next until None
RECURSIVE collect(_, _)
collect(t, it) ==
    LET r == next(t, it)
    IN  IF r.item = <<>> THEN <<>> ELSE r.item \o collect(t, r.it)

\* it.rev().collect(): next_back until None
RECURSIVE rev_collect(_, _)
rev_collect(t, it) ==
    LET r == next_back(t, it)
    IN  IF r.item = <<>> THEN <<>> ELSE r.item \o rev_collect(t, r.it)

\* it.take(n).collect(): at most n calls of next
RECURSIVE take_collect(_, _, _)
take_collect(t, it, n) ==
    IF n = 0 THEN <<>>
    ELSE LET r == next(t, it)
         IN  IF r.item = <<>> THEN <<>>
             ELSE r.item \o take_collect(t, r.it, n - 1)

\* -------------------------------------------------------------- actions
Store(t) ==
    /\ elements' = t.elements
    /\ sorted_ixs' = t.sorted_ixs
    /\ threshold' = t.threshold
    /\ cutoff' = t.cutoff

\* the state after Top16::new(c)
Start(c) ==
    /\ elements = new(c).elements
    /\ sorted_ixs = new(c).sorted_ixs
    /\ threshold = new(c).threshold
    /\ cutoff = new(c).cutoff
    /\ arg = c
    /\ panicked = FALSE
    /\ op = "new"
    /\ ret = 0
    /\ seen = EmptyBag
    /\ ncalls = 0
    /\ stamp = [s \in Slots |-> 0]
    /\ switches = 0
    /\ ncut = 0
    /\ before_cut = <<>>
    /\ walk = <<>>

Init == \E c \in Val : Start(c)

\* the history of one see/rank call; stored: the call overwrote the slot of
\* the old minimum
Record(value, stored) ==
    /\ seen' = seen (+) SetToBag({value})
    /\ ncalls' = ncalls + 1
    /\ stamp' = IF stored
                THEN [stamp EXCEPT ![ix(Self, 0)] = ncalls + 1]
                ELSE stamp
    /\ before_cut' = <<>>
    /\ walk' = <<>>
    /\ UNCHANGED ncut

\* a call of Top16::rank (src/src/top16.rs), Top16::see of src/src/lib.rs
RankCall(value) ==
    /\ ~panicked
    /\ LET r == rank(Self, value)
       IN  Store(r.top) /\ ret' = r.ret /\ Record(value, r.ret # 0)
    /\ op' = "rank"
    /\ arg' = value
    /\ UNCHANGED panicked

\* a call of Top16::see (src/src/top16.rs), which returns nothing
SeeCall(value) ==
    /\ ~panicked
    /\ Store(see(Self, value))
    /\ ret' = 0
    /\ op' = "see"
    /\ arg' = value
    /\ Record(value, value > threshold)
    /\ UNCHANGED panicked

\* a call of Top16::set_cutoff.  new_cutoff - 1 overflows for new_cutoff = 0:
\* a build with overflow checks panics there, one without them wraps.
SetCutoffCall(new_cutoff) ==
    /\ ~panicked
    /\ op' = "set_cutoff"
    /\ arg' = new_cutoff
    /\ ret' = 0
    /\ \/ /\ new_cutoff = 0
          /\ panicked' = TRUE
          /\ UNCHANGED <<elements, sorted_ixs, threshold, cutoff, stamp>>
       \/ /\ LET t1 == set_cutoff(Self, new_cutoff)
                 fl == floor_of(Self, new_cutoff)
             IN  /\ Store(t1)
                 /\ stamp' = [s \in Slots |->
                                IF elements[s] > fl THEN stamp[s] ELSE 0]
          /\ UNCHANGED panicked
    /\ ncut' = ncut + 1
    /\ before_cut' = Self
    /\ walk' = <<>>
    /\ UNCHANGED <<seen, ncalls, switches>>

Rank(value) ==
    /\ ncalls + ncut < MaxCalls
    /\ RankCall(value)
    /\ UNCHANGED switches

See(value) ==
    /\ ncalls + ncut < MaxCalls
    /\ SeeCall(value)
    /\ UNCHANGED switches

SetCutoff(new_cutoff) ==
    /\ ncalls + ncut < MaxCalls
    /\ SetCutoffCall(new_cutoff)

Next ==
    \/ \E v \in Val : Rank(v)
    \/ \E v \in Val : See(v)
    \/ \E c \in Val : SetCutoff(c)

Spec == Init /\ [][Next]_vars

\* SpecStream: a tracker that is only fed, by a stream of up to StreamLen
\* values that changes its value at most MaxSwitches times
Feed(value) ==
    /\ ncalls < StreamLen
    /\ IF op = "new" \/ switches < MaxSwitches THEN TRUE ELSE arg = value
    /\ RankCall(value)
    /\ switches' = IF op # "new" /\ arg # value
                   THEN switches + 1 ELSE switches

NextStream == \E v \in Val : Feed(v)

SpecStream == Init /\ [][NextStream]_vars

\* SpecCut: a tracker fed by a stream of up to StreamLen values that changes
\* its value at most CutSwitches times, whose cutoff is then set up to
\* MaxCuts times, each set_cutoff possibly followed by one see
CutFeed(value) ==
    /\ ncut = 0
    /\ ncalls < StreamLen
    /\ IF op = "new" \/ switches < CutSwitches THEN TRUE ELSE arg = value
    /\ RankCall(value)
    /\ switches' = IF op # "new" /\ arg # value
                   THEN switches + 1 ELSE switches

CutSet(new_cutoff) ==
    /\ ncut < MaxCuts
    /\ SetCutoffCall(new_cutoff)

CutSee(value) ==
    /\ op = "set_cutoff"
    /\ SeeCall(value)
    /\ UNCHANGED switches

NextCut ==
    \/ \E v \in Val : CutFeed(v)
    \/ \E c \in Val : CutSet(c)
    \/ \E v \in Val : CutSee(v)

SpecCut == Init /\ [][NextCut]_vars

\* SpecAscending: the harness of the test `ascending` (src/tests/top16.rs):
\* new(0), see(1), ..., see(19), then rank of values the test asks about
AscendingLast == 19
AscendingProbes == 6
ProbeVals == {0, 4, 5, 6, 30}

InitAscending == Init /\ cutoff = 0

AscendingSee ==
    /\ ncalls < AscendingLast
    /\ SeeCall(ncalls + 1)
    /\ UNCHANGED switches

AscendingRank(value) ==
    /\ ncalls >= AscendingLast
    /\ ncalls < AscendingLast + AscendingProbes
    /\ RankCall(value)
    /\ UNCHANGED switches

NextAscending ==
    \/ AscendingSee
    \/ \E v \in ProbeVals : AscendingRank(v)

SpecAscending == InitAscending /\ [][NextAscending]_vars

\* SpecHigherCutoff: the harness of the tests `descending` and `higher_cutoff`
\* (src/tests/top16.rs): new(0) or new(10), see(19), ..., see(1), then up to
\* HigherCuts calls of set_cutoff (the test calls set_cutoff(15)), and one
\* more value offered after a set_cutoff
HigherLast == 19
HigherCuts == 3
HigherStarts == {0, 10}
CutVals == {0, 5, 10, 12, 15, 19, 25}

InitHigherCutoff == \E c \in HigherStarts : Start(c)

HigherSee ==
    /\ ncalls < HigherLast
    /\ SeeCall(HigherLast - ncalls)
    /\ UNCHANGED switches

HigherSetCutoff(new_cutoff) ==
    /\ ncalls = HigherLast
    /\ ncut < HigherCuts
    /\ SetCutoffCall(new_cutoff)

HigherProbes == {3, 7, 10, 12, 20}

HigherRank(value) ==
    /\ op = "set_cutoff"
    /\ RankCall(value)
    /\ UNCHANGED switches

NextHigherCutoff ==
    \/ HigherSee
    \/ \E c \in CutVals : HigherSetCutoff(c)
    \/ \E v \in HigherProbes : HigherRank(v)

SpecHigherCutoff == InitHigherCutoff /\ [][NextHigherCutoff]_vars

\* SpecWalk: the harness of the test `take` (src/tests/top16.rs): new(c),
\* see(1), ..., see(19); at any point of the feed an iterator is made by
\* iter() or take(n) and then driven by next and next_back in any order,
\* with up to WalkExtra more calls after its cursors have met
WalkLast == 19
WalkExtra == 2

WalkSee ==
    /\ walk = <<>>
    /\ ncalls < WalkLast
    /\ SeeCall(ncalls + 1)
    /\ UNCHANGED switches

\* the iterator `it` starts its walk; limit: how many of the top positions
\* it was asked for
Borrow(it, limit) ==
    /\ ~panicked
    /\ walk = <<>>
    /\ walk' = [it |-> it, limit |-> limit, front |-> <<>>, back |-> <<>>,
                item |-> <<>>, after |-> 0]
    /\ UNCHANGED <<elements, sorted_ixs, threshold, cutoff, panicked, op, arg,
                   ret, seen, ncalls, stamp, switches, ncut, before_cut>>

WalkIter == Borrow(iter(Self), NUM)

WalkTake(n) == Borrow(take(Self, n), n)

\* one call of it.next(): the item goes to the end of walk.front
WalkNext ==
    /\ walk # <<>>
    /\ walk.after < WalkExtra
    /\ LET r == next(Self, walk.it)
       IN  walk' = [walk EXCEPT !.it = r.it,
                                !.front = @ \o r.item,
                                !.item = r.item,
                                !.after = IF walk.it.fwd_shift
                                              = walk.it.bwd_shift
                                          THEN @ + 1 ELSE @]
    /\ UNCHANGED <<elements, sorted_ixs, threshold, cutoff, panicked, op, arg,
                   ret, seen, ncalls, stamp, switches, ncut, before_cut>>

\* one call of it.next_back(): the item goes to the end of walk.back
WalkNextBack ==
    /\ walk # <<>>
    /\ walk.after < WalkExtra
    /\ LET r == next_back(Self, walk.it)
       IN  walk' = [walk EXCEPT !.it = r.it,
                                !.back = @ \o r.item,
                                !.item = r.item,
                                !.after = IF walk.it.fwd_shift
                                              = walk.it.bwd_shift
                                          THEN @ + 1 ELSE @]
    /\ UNCHANGED <<elements, sorted_ixs, threshold, cutoff, panicked, op, arg,
                   ret, seen, ncalls, stamp, switches, ncut, before_cut>>

NextWalk ==
    \/ WalkSee
    \/ WalkIter
    \/ \E n \in 0..MaxTake : WalkTake(n)
    \/ WalkNext
    \/ WalkNextBack

SpecWalk == Init /\ [][NextWalk]_vars

\* get_top_16_via_heap (src/tests/top16.rs): the heap is the bag of the
\* values pushed; pop takes out its greatest value
RECURSIVE heap_pop_n(_, _)
heap_pop_n(heap, n) ==
    IF n = 0 \/ BagToSet(heap) = {} THEN <<>>
    ELSE LET val == CHOOSE x \in BagToSet(heap) :
                        \A y \in BagToSet(heap) : y <= x
         IN  <<val>> \o heap_pop_n(heap (-) SetToBag({val}), n - 1)

get_top_16_via_heap(data) == heap_pop_n(data, 16)

\* ------------------------------------------------ vocabulary of the claims
\* how many entries of seq equal v
Count(seq, v) == Cardinality({i \in 1..Len(seq) : seq[i] = v})
Range(seq) == {seq[i] : i \in 1..Len(seq)}
Reverse(seq) == [i \in 1..Len(seq) |-> seq[Len(seq) + 1 - i]]

\* how many values of the stream exceed v
RECURSIVE CopiesOf(_, _)
CopiesOf(S, bag) ==
    IF S = {} THEN 0
    ELSE LET x == CHOOSE y \in S : TRUE
         IN  CopiesIn(x, bag) + CopiesOf(S \ {x}, bag)
SeenAbove(v) == CopiesOf({w \in BagToSet(seen) : w > v}, seen)

\* the stream values above v, as a bag
SeenBagAbove(v) == [w \in {x \in BagToSet(seen) : x > v} |-> seen[w]]

\* the value at sort position p (0 = smallest) and the stamp of its slot
At(t, p) == element_at(t, p * IX_BITS)
StampAt(p) == stamp[ix(Self, p * IX_BITS)]

\* iter() collected
OutOf(t) == collect(t, iter(t))
Out == OutOf(Self)

\* what is left of the iterator it yields values that do not increase
\* and, of equal values, the one that arrived earlier first; prev is the
\* value and the stamp of the item before, <<>> at the start
RECURSIVE OldestFirst(_, _, _, _)
OldestFirst(t, st, it, prev) ==
    LET r == next(t, it)
        k == st[ix(t, r.it.bwd_shift)]
    IN  IF r.item = <<>> THEN TRUE
        ELSE /\ \/ prev = <<>>
                \/ r.item[1] < prev[1]
                \/ r.item[1] = prev[1] /\ k > prev[2]
             /\ OldestFirst(t, st, r.it, <<r.item[1], k>>)

\* the greatest value of the bag above c: <<>> if there is none
MaxOfBag(bag, c) ==
    LET S == {w \in BagToSet(bag) : w > c}
    IN  IF S = {} THEN <<>> ELSE <<CHOOSE x \in S : \A y \in S : y <= x>>

TypeOK ==
    /\ elements \in [Slots -> Nat]
    /\ sorted_ixs \in [Fields -> Slots]
    /\ stamp \in [Slots -> 0..ncalls]

\* C1: after any stream of see calls on a fresh tracker, iter() yields in
\* non-increasing order the min(16, m) largest stream values, m being the
\* number of stream values above the cutoff, duplicates counted.
C1_TopOfStream ==
    LET out == Out
    IN  /\ Len(out) = Min(NUM, SeenAbove(cutoff))
        /\ \A i \in 1..(Len(out) - 1) : out[i] >= out[i + 1]
        /\ \A v \in BagToSet(seen) \cup Range(out) :
              Count(out, v) =
                 IF v <= cutoff THEN 0
                 ELSE IF SeenAbove(v) >= NUM THEN 0
                 ELSE Min(CopiesIn(v, seen), NUM - SeenAbove(v))

\* more than 16 values above the cutoff were seen and two different values
\* are tracked
C1_Witness ==
    /\ op = "rank"
    /\ SeenAbove(cutoff) > NUM
    /\ Len(Out) = NUM
    /\ Out[1] # Out[NUM]

\* C2 as stated: on Top16::new(0), iter() collected equals the 16 greatest
\* values of the whole stream as popped from a max-heap, zeros included.
C2_HeapOfAll ==
    (cutoff = 0 /\ ncalls > 0) => Out = get_top_16_via_heap(seen)

\* C2 amended: on Top16::new(0), iter() collected equals what the max-heap
\* gives for the stream values greater than 0.
C2_HeapOfNonZero ==
    (cutoff = 0 /\ ncalls > 0) => Out = get_top_16_via_heap(SeenBagAbove(0))

\* the stream held a zero and 16 greater values, not all equal
C2_Witness ==
    /\ cutoff = 0
    /\ CopiesIn(0, seen) > 0
    /\ SeenAbove(0) >= NUM
    /\ Len(Out) = NUM
    /\ Out[1] # Out[NUM]

\* C3 as stated: rank(v) returns 0 for every v <= cutoff, and for every
\* v > cutoff a value in 1..16, the 1-based position of v from the smallest
\* in the resulting tracked set.
C3_RankByCutoff ==
    op = "rank" =>
        IF arg <= cutoff THEN ret = 0
        ELSE /\ ret \in 1..NUM
             /\ At(Self, ret - 1) = arg
             /\ ret = 1 + Cardinality({p \in Fields : At(Self, p) < arg})

\* C3 amended: rank(v) returns 0 for every v <= threshold (so for every
\* v <= cutoff), and for every v > threshold a value in 1..16, the 1-based
\* position of v from the smallest in the resulting tracked set.
C3_RankByThreshold ==
    [][op' = "rank" =>
         IF arg' <= threshold THEN ret' = 0
         ELSE /\ ret' \in 1..NUM
              /\ At(Self', ret' - 1) = arg'
              /\ ret' = 1 + Cardinality({p \in Fields : At(Self', p) < arg'})
      ]_vars

\* rank was given a value above the cutoff that the full tracker rejected
C3_Witness ==
    /\ op = "rank"
    /\ arg > cutoff
    /\ arg <= threshold
    /\ ret = 0

\* the tracked values 19, 18, ..., 4 of the test, and what follows them
Descending(hi, lo) == [i \in 1..(hi - lo + 1) |-> hi + 1 - i]
Tracked_4_19 == Descending(19, 4)
Tracked_5_5_6_19 == Descending(19, 6) \o <<5, 5>>
Tracked_5_6_6_19 == Descending(19, 6) \o <<6, 5>>

\* the tracker t holds, from the largest down, the 16 values of seq
Holds(t, seq) == \A p \in Fields : At(t, p) = seq[NUM - p]

\* C4: an admitting rank(v) returns 1 + the number of values below v among
\* the 15 tracked values left once the minimum is evicted, and v then sits
\* at sort position rank - 1; a rejecting rank(v), v <= threshold, returns
\* 0.  With 4..19 tracked: rank(0) = 0, rank(4) = 0, rank(5) = 1, then
\* rank(5) = 0, rank(6) = 2, rank(30) = 16.
C4_RankCountsSmaller ==
    [][op' = "rank" =>
         /\ IF arg' <= threshold THEN ret' = 0
            ELSE /\ ret' = 1 + Cardinality({p \in 1..(NUM - 1) :
                                                At(Self, p) < arg'})
                 /\ At(Self', ret' - 1) = arg'
         /\ Out = Tracked_4_19 =>
               /\ arg' = 0 => ret' = 0
               /\ arg' = 4 => ret' = 0
               /\ arg' = 5 => ret' = 1 /\ Holds(Self', Tracked_5_5_6_19)
         /\ Out = Tracked_5_5_6_19 =>
               /\ arg' = 5 => ret' = 0
               /\ arg' = 6 => ret' = 2 /\ Holds(Self', Tracked_5_6_6_19)
         /\ Out = Tracked_5_6_6_19 =>
               /\ arg' = 30 => ret' = 16
      ]_vars

\* the end of the test's six calls: rank(30) = 16 on 5, 6, 6, 7, ..., 19
C4_Witness ==
    /\ op = "rank"
    /\ arg = 30
    /\ ret = 16
    /\ ncalls = AscendingLast + AscendingProbes
    /\ CopiesIn(5, seen) = 3
    /\ Out = <<30>> \o Descending(19, 7) \o <<6, 6>>

\* C5 as stated: the admitted value sits at the position p with every
\* element below p <= value and every element above p > value.
C5_EqualsBelow ==
    (op = "rank" /\ ret > 0) =>
        /\ \A q \in 0..(ret - 2) : At(Self, q) <= arg
        /\ \A q \in ret..(NUM - 1) : At(Self, q) > arg

\* C5 amended: the admitted value sits at the position p with every
\* element below p < value and every element above p >= value: incumbents
\* equal to the new value are kept above the newcomer.
C5_EqualsAbove ==
    (op = "rank" /\ ret > 0) =>
        /\ At(Self, ret - 1) = arg
        /\ \A q \in 0..(ret - 2) : At(Self, q) < arg
        /\ \A q \in ret..(NUM - 1) : At(Self, q) >= arg

\* a value was admitted between a smaller tracked value and an equal one
C5_Witness ==
    /\ op = "rank"
    /\ ret > 1
    /\ ret < NUM
    /\ At(Self, ret) = arg
    /\ At(Self, ret - 2) > cutoff

\* the sort order of t with the stamps st: values ascend with the position
\* and, of two neighbours holding the same admitted value, the one that
\* arrived earlier is at the lower position
OlderLower(t, st) ==
    \A p \in 0..(NUM - 2) :
        LET a == ix(t, p * IX_BITS)
            b == ix(t, (p + 1) * IX_BITS)
        IN  /\ t.elements[a] <= t.elements[b]
            /\ (t.elements[a] = t.elements[b] /\ st[a] # 0 /\ st[b] # 0)
                   => st[a] < st[b]

\* the same, the one that arrived later being at the lower position
NewerLower(t, st) ==
    \A p \in 0..(NUM - 2) :
        LET a == ix(t, p * IX_BITS)
            b == ix(t, (p + 1) * IX_BITS)
        IN  /\ t.elements[a] <= t.elements[b]
            /\ (t.elements[a] = t.elements[b] /\ st[a] # 0 /\ st[b] # 0)
                   => st[a] > st[b]

\* this call evicts a tracked value (not a slot still at the cutoff)
Evicts == arg' > threshold /\ StampAt(0) # 0

\* C6 as stated: of tracked equal values the one inserted first is at the
\* lower position, and an eviction takes the earliest arrival of its value.
C6_OldestEvicted ==
    [][op' = "rank" =>
         /\ OlderLower(Self', stamp')
         /\ Evicts => \A s \in Slots :
                          (elements[s] = threshold /\ stamp[s] # 0)
                              => StampAt(0) <= stamp[s]
      ]_vars

\* C6 amended: of tracked equal values the one inserted last is at the
\* lower position, and an eviction takes the latest arrival of its value
\* (the earliest seen instances are the ones retained).
C6_NewestEvicted ==
    [][op' = "rank" =>
         /\ NewerLower(Self', stamp')
         /\ Evicts => \A s \in Slots :
                          (elements[s] = threshold /\ stamp[s] # 0)
                              => StampAt(0) >= stamp[s]
      ]_vars

\* the 17th value above the cutoff has just evicted one of several equal
\* tracked values
C6_Witness ==
    /\ op = "rank"
    /\ ret > 0
    /\ ncalls = NUM + 1
    /\ SeenAbove(cutoff) = NUM + 1
    /\ threshold < arg
    /\ CopiesIn(threshold, seen) = Count(Out, threshold) + 1

\* C7: a new value never replaces a tracked value equal to it; of tracked
\* equal values the later arrival is evicted before the earlier one; and
\* iter() reports equal values oldest first.
C7_OldestRetained ==
    [][op' = "rank" =>
         /\ \A s \in Slots : stamp'[s] # stamp[s] => elements[s] < arg'
         /\ Evicts => \A s \in Slots :
                          (elements'[s] = threshold /\ stamp'[s] # 0)
                              => stamp'[s] < StampAt(0)
         /\ OldestFirst(Self', stamp', iter(Self'), <<>>)
      ]_vars

\* a value equal to the smallest of a full tracker, which holds it more
\* than once, was offered and rejected
C7_Witness ==
    /\ op = "rank"
    /\ ret = 0
    /\ arg > cutoff
    /\ arg = threshold
    /\ Count(Out, arg) >= 2
    /\ Out[1] > arg

\* C8: with the cutoff fixed, max() is absent until a value above the
\* cutoff has been seen, then is the largest value seen so far, and never
\* decreases from one see call to the next.
C8_MaxOfStream ==
    [][/\ max(Self) = MaxOfBag(seen, cutoff)
       /\ max(Self') = MaxOfBag(seen', cutoff')
       /\ max(Self) # <<>> =>
             (max(Self') # <<>> /\ max(Self')[1] >= max(Self)[1])
      ]_vars

\* the tracker is past its capacity and the last value seen, above the
\* cutoff, was smaller than max()
C8_Witness ==
    /\ op = "rank"
    /\ ncalls > NUM
    /\ arg > cutoff
    /\ max(Self) # <<>>
    /\ arg < max(Self)[1]

\* C9: iter().rev() yields the reverse of iter(), and take(n).rev() the
\* reverse of take(n), for every n.
C9_RevIsReverse ==
    /\ rev_collect(Self, iter(Self)) = Reverse(collect(Self, iter(Self)))
    /\ \A n \in 0..MaxTake :
          rev_collect(Self, take(Self, n))
              = Reverse(collect(Self, take(Self, n)))

\* after a set_cutoff, three or more values are tracked, not all equal
C9_Witness ==
    /\ ncut > 0
    /\ Len(Out) >= 3
    /\ Out[1] # Out[Len(Out)]
    /\ rev_collect(Self, take(Self, 2)) = <<Out[2], Out[1]>>

\* C10: take(n) yields the first n items of iter(), for every n, 0 and
\* n > 16 included; its lower cursor starts at sort position
\* 16 - min(16, n) and moves up past the slots not above the cutoff.
C10_TakeIsPrefix ==
    \A n \in 0..MaxTake :
        /\ collect(Self, take(Self, n)) = take_collect(Self, iter(Self), n)
        /\ LET start == (NUM - Min(NUM, n)) * IX_BITS
               first == iter(Self).fwd_shift
           IN  take(Self, n).fwd_shift = IF start >= first THEN start
                                         ELSE first

\* fewer values are tracked than take(n) is asked for, and more than
\* take(1) is asked for
C10_Witness ==
    /\ Len(Out) >= 2
    /\ Len(Out) < NUM
    /\ Len(collect(Self, take(Self, 1))) = 1
    /\ collect(Self, take(Self, NUM + 1)) = Out
    /\ collect(Self, take(Self, 0)) = <<>>

\* ------------------------------------------------------------ set_cutoff
\* the values of seq greater than c, in the order of seq
Above(seq, c) == SelectSeq(seq, LAMBDA v : v > c)

\* the last call was a set_cutoff that returned
CutDone == op = "set_cutoff" /\ ~panicked

\* C11: for every new_cutoff >= 1, raising or lowering, iter() after
\* set_cutoff(new_cutoff) yields exactly the values that iter() yielded
\* before the call and that are greater than new_cutoff, in the same order.
C11_KeepsAboveNewCutoff ==
    (CutDone /\ arg >= 1) => Out = Above(OutOf(before_cut), arg)

\* the scenario of the test higher_cutoff: cutoff 10 holding 19..11, then
\* set_cutoff(15) leaves 19, 18, 17, 16
C11_Witness ==
    /\ CutDone
    /\ arg = 15
    /\ before_cut.cutoff = 10
    /\ OutOf(before_cut) = Descending(19, 11)
    /\ Out = <<19, 18, 17, 16>>

\* C12 as stated: set_cutoff(0) is a call like any other: new_cutoff - 1
\* does not underflow, the call returns, and every value that iter() yielded
\* before the call is yielded after it.
C12_ZeroIsValid ==
    (op = "set_cutoff" /\ arg = 0) =>
        /\ ~panicked
        /\ Out = OutOf(before_cut)

\* C12 as the code has it: new_cutoff - 1 underflows for new_cutoff = 0; the
\* call either panics, leaving the tracker as it was, or the floor wraps to
\* u32::MAX and all sixteen slots are rewritten to 0, so iter() is empty.
C12_ZeroOverflows ==
    (op = "set_cutoff" /\ arg = 0) =>
        \/ panicked /\ Self = before_cut
        \/ /\ ~panicked
           /\ \A s \in Slots : elements[s] = 0
           /\ cutoff = 0 /\ threshold = 0
           /\ Out = <<>>

\* set_cutoff(0) returned on a tracker that held values: they are gone
C12_Witness ==
    /\ CutDone
    /\ arg = 0
    /\ OutOf(before_cut) # <<>>
    /\ Out = <<>>

\* the last call raised the cutoff and this step sets it back to what it was
RaisedThenLowered ==
    /\ CutDone
    /\ arg > before_cut.cutoff
    /\ op' = "set_cutoff"
    /\ arg' = before_cut.cutoff
    /\ ncut' = ncut + 1

\* C13 as stated: raising the cutoff and immediately lowering it back to the
\* original cutoff restores the max() that held before the raise.
C13_MaxRestored ==
    [][(RaisedThenLowered /\ ~panicked') => max(Self') = max(before_cut)
      ]_vars

\* C13 amended: max() is restored only if the original cutoff is at least 1
\* and the former max was greater than the raised cutoff; otherwise max()
\* is absent after the lowering.  Only lowering back to 0 can panic.
C13_MaxRestoredIfAbove ==
    [][RaisedThenLowered =>
         /\ panicked' => arg' = 0
         /\ ~panicked' =>
               max(Self') =
                  IF /\ arg' >= 1
                     /\ max(before_cut) # <<>>
                     /\ max(before_cut)[1] > arg
                  THEN max(before_cut) ELSE <<>>
      ]_vars

\* cutoff 10 holding 19 was raised to 15 and lowered back to 10: max() is
\* 19 again
C13_Witness ==
    /\ CutDone
    /\ ncut = 2
    /\ before_cut.cutoff = 15
    /\ cutoff = 10
    /\ max(Self) = <<19>>

\* C14: set_cutoff is idempotent: a second set_cutoff(c) right after a
\* set_cutoff(c) leaves elements, sorted_ixs, threshold and cutoff as the
\* first call left them.
C14_Idempotent ==
    [][(CutDone /\ op' = "set_cutoff" /\ arg' = arg /\ ncut' = ncut + 1)
          => Self' = Self
      ]_vars

\* set_cutoff(15) was called twice in a row on a tracker holding values
\* below and above 15
C14_Witness ==
    /\ CutDone
    /\ ncut = 2
    /\ arg = 15
    /\ before_cut.cutoff = 15
    /\ before_cut = Self
    /\ Out = <<19, 18, 17, 16>>

\* ------------------------------------------------------------ invariants
\* how many sort positions hold a value not above the cutoff
NotAbove == Cardinality({p \in 0..(NUM - 1) : At(Self, p) <= cutoff})

\* C15: after any sequence of see and set_cutoff calls every value yielded
\* by iter() or take(n), from either end, is greater than the cutoff; the
\* slots not above the cutoff, and only they, are skipped when the iterator
\* is made, so a fresh tracker yields nothing and a tracker that has seen
\* fewer than 16 values above the cutoff yields fewer than 16 items.
C15_YieldsAboveCutoff ==
    LET out == Out
    IN  /\ \A v \in Range(out) \cup Range(rev_collect(Self, iter(Self))) :
              v > cutoff
        /\ \A n \in 0..MaxTake :
              \A v \in Range(collect(Self, take(Self, n)))
                       \cup Range(rev_collect(Self, take(Self, n))) :
                  v > cutoff
        /\ iter(Self).fwd_shift = NotAbove * IX_BITS
        /\ Len(out) = NUM - NotAbove
        /\ Len(out) <= SeenAbove(cutoff)
        /\ op = "new" => out = <<>>

\* a see after a set_cutoff, on a tracker with slots not above the cutoff
\* and values above it
C15_Witness ==
    /\ op = "see"
    /\ ncut > 0
    /\ arg > cutoff
    /\ Len(Out) > 1
    /\ Len(Out) < NUM
    /\ SeenAbove(cutoff) < NUM

\* C16: cutoff() returns the value given to new or to the most recent
\* set_cutoff that returned; no see or rank call, admitted or rejected,
\* changes it.
C16_CutoffFrame ==
    /\ cutoff_of(Self) = arg
    /\ [][/\ ncalls' = ncalls + 1 => cutoff_of(Self') = cutoff_of(Self)
          /\ (ncut' = ncut + 1 /\ ~panicked') => cutoff_of(Self') = arg'
          /\ (ncut' = ncut + 1 /\ panicked') =>
                 cutoff_of(Self') = cutoff_of(Self)
         ]_vars

\* a value was admitted to a full tracker whose cutoff had been set
C16_Witness ==
    /\ op = "see"
    /\ ncut > 0
    /\ arg > cutoff_of(Self)
    /\ threshold > cutoff_of(Self)
    /\ ret = 0

\* C17: in every state reached by new and any sequence of see, rank and
\* set_cutoff calls, the slot values read in sort-position order are
\* non-decreasing.
C17_SortedByPosition ==
    \A p \in 0..(NUM - 2) : At(Self, p) <= At(Self, p + 1)

\* a set_cutoff has rewritten some slots of a tracker that held two
\* different values, and has left a value above the new cutoff
C17_Witness ==
    /\ CutDone
    /\ arg >= 1
    /\ before_cut.elements # elements
    /\ At(Self, 0) = cutoff
    /\ At(Self, NUM - 1) > cutoff
    /\ LET b == OutOf(before_cut)
       IN  Len(b) >= 2 /\ b[1] # b[Len(b)]

\* C18: in every reachable state the sixteen 4-bit fields of sorted_ixs are
\* a permutation of 0..15, also after insertions at sort positions 0 and 15,
\* where the splice shifts by 64 bits.
C18_Permutation ==
    /\ \A s \in Slots : \E i \in Fields : sorted_ixs[i] = s
    /\ \A i, j \in Fields : sorted_ixs[i] = sorted_ixs[j] => i = j

\* a value was inserted at sort position 0 of a tracker whose other fifteen
\* values had been inserted at higher positions
C18_Witness ==
    /\ op = "rank"
    /\ ret = 1
    /\ Len(Out) = NUM
    /\ Out[NUM] = arg
    /\ Out[1] > arg
    /\ sorted_ixs # IdentityIxs

\* C19: after new and after every see, rank and set_cutoff call, threshold
\* is the value of the slot at sort position 0.
C19_ThresholdIsMin ==
    threshold = elements[sorted_ixs[0]]

\* a set_cutoff has changed the threshold of a full tracker
C19_Witness ==
    /\ CutDone
    /\ before_cut.threshold > before_cut.cutoff
    /\ threshold # before_cut.threshold
    /\ threshold = cutoff
    /\ arg >= 1

\* C20: see(v) or rank(v) with v <= threshold returns 0 (rank) and leaves
\* elements, sorted_ixs, threshold and cutoff unchanged, so iter() and max()
\* give what they gave before the call.
C20_FastReject ==
    [][(ncalls' = ncalls + 1 /\ arg' <= threshold) =>
         /\ ret' = 0
         /\ Self' = Self
         /\ OutOf(Self') = OutOf(Self)
         /\ max(Self') = max(Self)
      ]_vars

\* a full tracker has rejected a value above the cutoff and below its
\* smallest tracked value
C20_Witness ==
    /\ op = "rank"
    /\ ret = 0
    /\ arg > cutoff
    /\ arg < threshold
    /\ Len(Out) = NUM

\* ------------------------------------------------------- frame conditions
\* the slot values as a bag
SlotBag(els) ==
    [v \in {els[s] : s \in Slots} |-> Cardinality({s \in Slots : els[s] = v})]

\* this step is a see or rank call that admits its value
Admitted == ncalls' = ncalls + 1 /\ arg' > threshold

\* C21: an admitted see(v) writes exactly one slot, the one that was at sort
\* position 0, storing v in it; the other fifteen slot indices keep their
\* relative order in sorted_ixs, the reused index being spliced in at the
\* insertion position and the old bottom field dropped; the tracked bag is
\* the old one less one occurrence of its minimum plus v.
C21_OneSlotWritten ==
    [][Admitted =>
         LET m == sorted_ixs[0]
         IN  /\ elements' = [elements EXCEPT ![m] = arg']
             /\ \E p \in Fields :
                   /\ sorted_ixs'[p] = m
                   /\ \A i \in Fields :
                         sorted_ixs'[i] = IF i < p THEN sorted_ixs[i + 1]
                                          ELSE IF i = p THEN m
                                          ELSE sorted_ixs[i]
                   /\ op' = "rank" => ret' = p + 1
             /\ SlotBag(elements') (+) SetToBag({elements[m]})
                   = SlotBag(elements) (+) SetToBag({arg'})
             /\ elements[m] = threshold
             /\ cutoff' = cutoff
      ]_vars

\* the 17th value went to sort position 1 of a full tracker, between the
\* smallest tracked value and the rest
C21_Witness ==
    /\ op = "rank"
    /\ ret = 2
    /\ ncalls = NUM + 1
    /\ Len(Out) = NUM
    /\ Out[NUM] < arg
    /\ sorted_ixs # IdentityIxs

\* the number of sort positions at the bottom of t whose values are all at
\* most fl
RECURSIVE BottomRun(_, _, _)
BottomRun(t, fl, p) ==
    IF p < NUM /\ At(t, p) <= fl THEN BottomRun(t, fl, p + 1) ELSE p

\* C22: set_cutoff(new_cutoff) with new_cutoff >= 1 never changes sorted_ixs;
\* it rewrites to new_cutoff exactly the bottom run of sort positions whose
\* values are at most max(old_cutoff, new_cutoff - 1), and leaves every slot
\* from the first one above that floor on unchanged.
C22_RewritesBottomRun ==
    (CutDone /\ arg >= 1) =>
        LET old == before_cut
            fl == IF old.cutoff >= arg - 1 THEN old.cutoff ELSE arg - 1
            k == BottomRun(old, fl, 0)
        IN  /\ sorted_ixs = old.sorted_ixs
            /\ \A p \in 0..(NUM - 1) :
                  At(Self, p) = IF p < k THEN arg ELSE At(old, p)
            /\ \A p \in 0..(NUM - 1) : p >= k => At(old, p) > fl

\* a set_cutoff above the old cutoff has rewritten slots that held the old
\* cutoff and slots that held tracked values, and has kept a value
C22_Witness ==
    /\ CutDone
    /\ arg > before_cut.cutoff
    /\ At(before_cut, 0) = before_cut.cutoff
    /\ LET k == BottomRun(before_cut, arg - 1, 0)
       IN  /\ k < NUM
           /\ At(before_cut, k - 1) > before_cut.cutoff
           /\ At(Self, k) = At(before_cut, k)
           /\ At(Self, NUM - 1) > arg

\* C23: in every reachable state every slot value is at least the cutoff, so
\* the threshold is, and the slots that hold the cutoff are the sort
\* positions 0..k-1 for some k.
C23_NothingBelowCutoff ==
    /\ \A s \in Slots : elements[s] >= cutoff
    /\ threshold >= cutoff
    /\ \A p \in 1..(NUM - 1) :
          At(Self, p) = cutoff => At(Self, p - 1) = cutoff

\* a value was admitted after the cutoff had been set to 1 or more, into a
\* tracker that still has slots at the cutoff
C23_Witness ==
    /\ op = "see"
    /\ ncut > 0
    /\ cutoff >= 1
    /\ arg > cutoff
    /\ At(Self, 0) = cutoff
    /\ At(Self, NUM - 1) = arg

\* C24: across see and rank calls the threshold never decreases.
C24_ThresholdMonotone ==
    [][ncalls' = ncalls + 1 => threshold' >= threshold]_vars

\* the 17th value has evicted the smallest of a full tracker and so raised
\* the threshold above it
C24_Witness ==
    /\ op = "rank"
    /\ ncalls = NUM + 1
    /\ ret > 0
    /\ \E mn \in BagToSet(seen) :
          /\ \A w \in BagToSet(seen) : mn <= w
          /\ mn > cutoff
          /\ threshold > mn

\* ---------------------------------------------------------------- C25
\* the positions an iterator made with the limit of `walk` may yield: the
\* top `limit` sort positions that hold a value above the cutoff
InRange ==
    {p \in (NUM - Min(NUM, walk.limit))..(NUM - 1) : At(Self, p) > cutoff}

Met == walk.it.fwd_shift = walk.it.bwd_shift

\* C25: however next and next_back are interleaved on one iterator, next
\* has returned the in-range positions from the top down, next_back those
\* from the bottom up, no position twice; the cursors meet exactly when
\* every in-range value above the cutoff has been returned once, and every
\* call made after they met returned None.
C25_EachOnce ==
    walk # <<>> =>
        LET f == walk.front
            b == walk.back
            n == Cardinality(InRange)
        IN  /\ \A i \in 1..Len(f) :
                    /\ NUM - i \in InRange
                    /\ f[i] = At(Self, NUM - i)
            /\ \A j \in 1..Len(b) :
                    /\ NUM - n + j - 1 \in InRange
                    /\ b[j] = At(Self, NUM - n + j - 1)
            /\ Len(f) + Len(b) <= n
            /\ Met <=> Len(f) + Len(b) = n
            /\ walk.it.bwd_shift = (NUM - Len(f)) * IX_BITS
            /\ walk.it.fwd_shift = (NUM - n + Len(b)) * IX_BITS
            /\ walk.after > 0 => Met /\ walk.item = <<>>
            /\ (walk.after = 0 /\ Len(f) + Len(b) > 0) => walk.item # <<>>

\* both ends were used, the walk is over and was asked again, and the range
\* was cut short both by take's limit and by the cutoff
C25_Witness ==
    /\ walk # <<>>
    /\ walk.after = WalkExtra
    /\ Len(walk.front) >= 2
    /\ Len(walk.back) >= 2
    /\ walk.limit < NUM
    /\ Cardinality(InRange) < walk.limit
    /\ cutoff >= 1

\* ---------------------------------------------------------------- C26
\* the last call was set_cutoff(c') with 1 <= c' < c, c the cutoff before
\* it, on a tracker whose threshold was c
Lowered ==
    /\ CutDone
    /\ ~panicked
    /\ arg >= 1
    /\ arg < before_cut.cutoff
    /\ before_cut.threshold = before_cut.cutoff

\* C26: after set_cutoff lowered the cutoff from c to c' on a tracker whose
\* threshold was c, the threshold is c', and a following call that offers
\* v with c' < v <= c admits v: the rank is not 0, the slot of the old
\* minimum holds v, and iter() yields v.
C26_LoweredAdmits ==
    [][Lowered =>
         /\ threshold = arg
         /\ cutoff = arg
         /\ (ncalls' = ncalls + 1 /\ arg' > arg /\ arg' <= before_cut.cutoff)
               => /\ op' = "rank" => ret' # 0
                  /\ elements' = [elements EXCEPT ![sorted_ixs[0]] = arg']
                  /\ \E i \in 1..Len(OutOf(Self')) : OutOf(Self')[i] = arg'
    ]_vars

\* a value between the lowered and the old cutoff was admitted below the
\* values admitted before the cut, while other slots stay at the new cutoff
C26_Witness ==
    /\ op = "rank"
    /\ ncut = 1
    /\ cutoff >= 1
    /\ arg > cutoff
    /\ \E c \in HigherStarts : cutoff < c /\ arg <= c
    /\ ret > 1
    /\ ret < NUM
    /\ At(Self, ret - 1) = arg
    /\ Cardinality({s \in Slots : elements[s] = cutoff}) >= 2

\* ---------------------------------------------------------------- C27
\* C27: the state made by new(cutoff) has all 16 slots, the threshold and
\* the cutoff equal to the argument and slot i at sort position i; iter()
\* and every take(n) are empty there and max() is None.
C27_NewState ==
    op = "new" =>
        /\ \A s \in Slots : elements[s] = arg
        /\ threshold = arg
        /\ cutoff = arg
        /\ \A i \in Fields : sorted_ixs[i] = i
        /\ next(Self, iter(Self)).item = <<>>
        /\ Out = <<>>
        /\ \A n \in 0..MaxTake : collect(Self, take(Self, n)) = <<>>
        /\ max(Self) = <<>>

\* a tracker just made with a cutoff above 0
C27_Witness ==
    /\ op = "new"
    /\ ncalls = 0
    /\ ncut = 0
    /\ arg >= 1
    /\ elements[NUM - 1] = arg

\* ---------------------------------------------------------------- C28
\* the first item of iter(), <<>> when it has none
First == next(Self, iter(Self)).item

\* C28: in every state max() is the first item of iter(): both are None
\* when no slot holds a value above the cutoff, and otherwise both are the
\* value at the top sort position, which no slot exceeds.
C28_MaxIsFirst ==
    /\ max(Self) = First
    /\ IF \A s \in Slots : elements[s] <= cutoff
       THEN First = <<>>
       ELSE /\ First = <<At(Self, NUM - 1)>>
            /\ \A s \in Slots : elements[s] <= First[1]

\* after a set_cutoff a value was admitted and is now both max() and the
\* first item, over slots that stay at the cutoff
C28_Witness ==
    /\ op = "see"
    /\ ncut > 0
    /\ cutoff >= 1
    /\ max(Self) = <<arg>>
    /\ First = <<arg>>
    /\ threshold = cutoff
    /\ Cardinality({s \in Slots : elements[s] > cutoff}) >= 2

\* ---------------------------------------------------------------- C29
\* C29: on the same state rank(v) and see(v) of top16.rs leave the same
\* elements, sorted_ixs, threshold and cutoff, for the value of every call
\* made and for every other value that could be offered; what rank returns
\* is what see(v) of lib.rs returns, and lib.rs's see leaves that state too.
C29_RankIsSee ==
    [][ncalls' = ncalls + 1 =>
         /\ Self' = see(Self, arg')
         /\ Self' = lib_see(Self, arg').top
         /\ op' = "rank" => ret' = lib_see(Self, arg').ret
         /\ \A v \in Val \cup {U32Max} :
                /\ rank(Self, v).top = see(Self, v)
                /\ lib_see(Self, v).top = see(Self, v)
                /\ rank(Self, v).ret = lib_see(Self, v).ret
    ]_vars

\* a rank call on a full tracker that stored its value above the smaller
\* values and below an equal one
C29_Witness ==
    /\ op = "rank"
    /\ ncalls > NUM
    /\ threshold > cutoff
    /\ ret > 1
    /\ ret < NUM
    /\ At(Self, ret - 1) = arg
    /\ At(Self, ret - 2) < arg
    /\ At(Self, ret) = arg

\* ---------------------------------------------------------------- C30
\* what holds of the search and the splice of see_helper for the value v
\* in the tracker t
SearchSound(t, v) ==
    LET sh == shifts(t, v)
        shift == search(t, v)
        w == t.sorted_ixs
        Zero == [i \in Fields |-> 0]
    IN  \* no subtraction goes below 0: step i adds (8 >> i) * IX_BITS
        \* and takes off le << (6 - i)
        /\ sh[1] + 4 * IX_BITS >= le(t, v, sh[1]) * 32
        /\ sh[2] + 2 * IX_BITS >= le(t, v, sh[2]) * 16
        /\ sh[3] + 1 * IX_BITS >= le(t, v, sh[3]) * 8
        /\ sh[4] + 0 * IX_BITS >= le(t, v, sh[4]) * 4
        \* the probes: position 8; 4 or 12; 2, 6, 10 or 14; an odd one
        /\ \A i \in 1..5 : sh[i] % IX_BITS = 0 /\ sh[i] \in 0..60
        /\ sh[1] \div IX_BITS = 8
        /\ sh[2] \div IX_BITS \in {4, 12}
        /\ sh[3] \div IX_BITS \in {2, 6, 10, 14}
        /\ (sh[4] \div IX_BITS) % 2 = 1
        \* the result: the largest position that holds less than v
        /\ shift = sh[5]
        /\ At(t, shift \div IX_BITS) < v
        /\ \A p \in Fields : p > shift \div IX_BITS => At(t, p) >= v
        \* the shift amounts of the splice
        /\ IXS_BITS - IX_BITS - shift \in 0..60
        /\ IXS_BITS - shift \in 4..64
        /\ shift + IX_BITS \in 4..64
        /\ UnboundedShr(w, IXS_BITS) = Zero
        /\ shift = 0 =>
              UnboundedShr(Shl(w, IXS_BITS - IX_BITS - shift),
                           IXS_BITS - shift) = Zero
        /\ shift = 60 => UnboundedShr(w, shift + IX_BITS) = Zero

\* C30: for every call that admits its value, and for every other value
\* the state before it would admit, the four search steps do not go below
\* 0, probe position 8, then 4 or 12, then 2, 6, 10 or 14, then an odd
\* position, all at multiples of 4 in 0..60, and end at 4 times the largest
\* sort position that holds less than the value; the splice shifts by
\* amounts in 0..64, a shift by 64 giving 0; the rank returned is that
\* position plus 1.
C30_SearchSound ==
    [][ncalls' = ncalls + 1 =>
         /\ \A v \in Val \cup {U32Max} : v > threshold => SearchSound(Self, v)
         /\ (arg' > threshold /\ op' = "rank")
                => ret' = (shifts(Self, arg')[5] \div IX_BITS) + 1
    ]_vars

\* admitted at the very top of a full tracker of values above the cutoff:
\* the search ended at shift 60 and the splice shifted its upper part out
\* whole
C30_Witness ==
    /\ op = "rank"
    /\ ncalls > NUM
    /\ threshold > cutoff
    /\ ret = NUM
    /\ At(Self, NUM - 1) = arg
    /\ At(Self, NUM - 2) < arg
    /\ StampAt(NUM - 1) = ncalls
====
